---- MODULE Spec2Model ----
(***************************************************************************)
(* Model of the weather server (package weatherserver): one inbound        *)
(* request handled by Server.ServeHTTP, with its two chained upstream      *)
(* calls (forcastGrid, forecastGet) made through httpGet under one         *)
(* deadline-bound context.  The upstream (weather.gov) and the clock are   *)
(* the environment.                                                        *)
(*                                                                         *)
(* Strings whose content the code inspects are sequences of one-character  *)
(* strings.  Temperatures and coordinates are fixed-point integers.        *)
(***************************************************************************)
EXTENDS Integers, Sequences, FiniteSets, TLC

\* ------------------------------------------------------------------ bounds
\* longest lat / lon query value that is enumerated
MaxLen == 3
\* the clock stops advancing at this many seconds
MaxTime == 3
\* fixed-point resolution of a temperature: units per degree
Scale == 10
\* startServer / stopServer calls the free callers make in all
MaxCalls == 3
\* signals delivered to the process
MaxSignals == 2

\* --------------------------------------------------------------- constants
\* context.WithTimeout(ctx, 2*time.Second)
Timeout == 2
StatusOK == 200
StatusBadRequest == 400
StatusNotFound == 404
StatusMethodNotAllowed == 405
StatusNotAcceptable == 406
StatusInternalServerError == 500
\* tempratureAnalog thresholds, in degrees
ColdBelow == 40
ModerateBelow == 80

\* A header, or a query parameter, that the request does not carry.
Absent == "<absent>"
QueryAbsent == <<"<absent>">>

RECURSIVE Pow10(_)
Pow10(n) == IF n = 0 THEN 1 ELSE 10 * Pow10(n - 1)

\* ------------------------------------------------------------ the request
Chars == {"4", "-", "."}
Digits == {"4"}
DigitVal(c) == 4

\* every string over Chars of length at most n
Strs(n) == UNION {[1..k -> Chars] : k \in 0..n}

Methods == {"GET", "POST"}
Paths == {"/weather", "/"}
Accepts == {Absent, "*/*", "text/*", "text/plain", "application/json", "text/html"}
QueryValues == {QueryAbsent} \cup Strs(MaxLen)
\* the lat / lon values of the requests that are followed through the pipeline
PipelineQueryValues ==
    {QueryAbsent, <<>>, <<"-">>, <<"4">>, <<"-", "4">>, <<"4", ".", "4">>}

\* http.Header.Get / url.Values.Get: the value, or the empty string when the
\* key is not present.
HeaderGet(v) == IF v = Absent THEN "" ELSE v
QueryGet(v) == IF v = QueryAbsent THEN <<>> ELSE v

acceptedTypes == {"*/*", "text/*", "text/plain"}

\* strconv.ParseFloat on the decimal subset: [sign] digits [. digits], at
\* least one digit, nothing after it.  The value is in units of
\* 10^-MaxLen.
RECURSIVE ScanMantissa(_, _, _, _, _, _)
ScanMantissa(s, i, sawdot, sawdigits, mant, frac) ==
    IF i > Len(s)
    THEN [i |-> i, sawdigits |-> sawdigits, mant |-> mant, frac |-> frac]
    ELSE IF s[i] \in Digits
    THEN ScanMantissa(s, i + 1, sawdot, TRUE, mant * 10 + DigitVal(s[i]),
                      IF sawdot THEN frac + 1 ELSE frac)
    ELSE IF s[i] = "." /\ ~sawdot
    THEN ScanMantissa(s, i + 1, TRUE, sawdigits, mant, frac)
    ELSE [i |-> i, sawdigits |-> sawdigits, mant |-> mant, frac |-> frac]

ParseFloat(s) ==
    LET neg == Len(s) > 0 /\ s[1] = "-"
        m == ScanMantissa(s, IF neg THEN 2 ELSE 1, FALSE, FALSE, 0, 0)
        ok == m.sawdigits /\ m.i > Len(s)
        mag == IF ok THEN m.mant * Pow10(MaxLen - m.frac) ELSE 0
    IN  [ok |-> ok, val |-> IF neg THEN 0 - mag ELSE mag]

\* the k low decimal digits of n, most significant first
RECURSIVE DecDigits(_, _)
DecDigits(n, k) ==
    IF k = 0 THEN <<>> ELSE Append(DecDigits(n \div 10, k - 1), ToString(n % 10))

\* fmt.Sprintf("%f", v): sign, integer part, six fractional digits
FormatF(v) ==
    LET mag == IF v < 0 THEN 0 - v ELSE v
        unit == Pow10(MaxLen)
    IN  (IF v < 0 THEN <<"-">> ELSE <<>>) \o <<ToString(mag \div unit), ".">>
        \o DecDigits((mag % unit) * Pow10(6 - MaxLen), 6)

\* ------------------------------------------------------------------ state
VARIABLES
    request,    \* the inbound request: method, path, Accept, lat, lon
    pc,         \* position of the handler
    call,       \* the resolver step in progress: none, forcastGrid, forecastGet
    now,        \* the clock, seconds since the request arrived
    ctx,        \* the context derived by ServeHTTP: [set, deadline]
    url,        \* url argument of the httpGet in progress
    response,   \* the upstream response httpGet holds: [open, status, body]
    forecastEndpoint, \* ServeHTTP's local: result of forcastGrid
    writer,     \* the http.ResponseWriter
    outbound,   \* requests put on the wire, in order
    history     \* what the upstream and the clock did to each call, in order

\* the process around the handler (package main)
VARIABLES
    listener,   \* the global listener: 0 is nil, otherwise a socket of socks
    mutex,      \* listnerMutext: "free", or the goroutine that locked it
    socks,      \* the sockets net.Listen has bound, in order: "open" or "closed"
    tpc,        \* position of each goroutine
    tret,       \* what each goroutine's last call returned
    srv,        \* the listener each goroutine handed to httpServer.Serve
    sigchan,    \* the buffered signal channel
    calls,      \* startServer / stopServer calls and signals so far
    racy        \* listener was read or written without the mutex held

lvars == <<listener, mutex, socks, tpc, tret, srv, sigchan, calls, racy>>

vars == <<request, pc, call, now, ctx, url, response, forecastEndpoint,
          writer, outbound, history, lvars>>

pvars == <<request, pc, call, now, ctx, url, response, forecastEndpoint,
           writer, outbound, history>>

\* main, the signals goroutine it spawns, and two goroutines that call
\* startServer and stopServer freely
Callers == {"c1", "c2"}
Goroutines == {"main", "signals"} \cup Callers

\* the process before main runs
NotStarted ==
    /\ listener = 0
    /\ mutex = "free"
    /\ socks = <<>>
    /\ tpc = [t \in Goroutines |-> "off"]
    /\ tret = [t \in Goroutines |-> "none"]
    /\ srv = [t \in Goroutines |-> 0]
    /\ sigchan = <<>>
    /\ calls = 0
    /\ racy = FALSE

NoResponse == [open |-> FALSE, status |-> 0, body |-> <<>>, consumed |-> FALSE]
NoWriter == [status |-> 0, body |-> <<>>, contentType |-> "", contentLength |-> 0 - 1,
             statusWrites |-> 0]

Requests(values) ==
    [method : Methods, path : Paths, accept : Accepts, lat : values, lon : values]

Arrived ==
    /\ pc = "start"
    /\ call = "none"
    /\ now = 0
    /\ ctx = [set |-> FALSE, deadline |-> 0]
    /\ url = <<>>
    /\ response = NoResponse
    /\ forecastEndpoint = <<>>
    /\ writer = NoWriter
    /\ outbound = <<>>
    /\ history = <<>>

Init == request \in Requests(PipelineQueryValues) /\ Arrived /\ NotStarted

\* http.Error: sets the plain-text content type, writes the status and the
\* message followed by a newline.
HttpError(w, msg, code) ==
    [w EXCEPT !.status = IF w.status = 0 THEN code ELSE w.status,
              !.statusWrites = w.statusWrites + 1,
              !.contentType = "text/plain; charset=utf-8",
              !.body = w.body \o msg \o <<"\n">>]

\* validRequest: the checks in their order; [valid, code, msg, lat, lon]
Rejected(code, msg) == [valid |-> FALSE, code |-> code, msg |-> msg, lat |-> 0, lon |-> 0]

\* mutant: the path is checked before the method
validRequest_PathFirst(r) ==
    LET accept == HeaderGet(r.accept)
        latitudeString == QueryGet(r.lat)
        longitudeString == QueryGet(r.lon)
        latitude == ParseFloat(latitudeString)
        longitude == ParseFloat(longitudeString)
    IN  IF r.path # "/weather"
        THEN Rejected(StatusNotFound, <<"only /weather allowed">>)
        ELSE IF r.method # "GET"
        THEN Rejected(StatusMethodNotAllowed, <<"only GET allowed">>)
        ELSE IF accept \notin acceptedTypes
        THEN Rejected(StatusNotAcceptable, <<"must accept text/plain">>)
        ELSE IF latitudeString = <<>> \/ longitudeString = <<>>
        THEN Rejected(StatusBadRequest, <<"query params 'lat' and 'lon' are required">>)
        ELSE IF ~latitude.ok
        THEN Rejected(StatusBadRequest, <<"invalid 'lat' query param: ", "parse error">>)
        ELSE IF ~longitude.ok
        THEN Rejected(StatusBadRequest, <<"invalid 'lon' query param: ", "parse error">>)
        ELSE [valid |-> TRUE, code |-> 0, msg |-> <<>>,
              lat |-> latitude.val, lon |-> longitude.val]

validRequest(r) ==
    LET accept == HeaderGet(r.accept)
        latitudeString == QueryGet(r.lat)
        longitudeString == QueryGet(r.lon)
        latitude == ParseFloat(latitudeString)
        longitude == ParseFloat(longitudeString)
    IN  IF r.method # "GET"
        THEN Rejected(StatusMethodNotAllowed, <<"only GET allowed">>)
        ELSE IF r.path # "/weather"
        THEN Rejected(StatusNotFound, <<"only /weather allowed">>)
        ELSE IF accept \notin acceptedTypes
        THEN Rejected(StatusNotAcceptable, <<"must accept text/plain">>)
        ELSE IF latitudeString = <<>> \/ longitudeString = <<>>
        THEN Rejected(StatusBadRequest, <<"query params 'lat' and 'lon' are required">>)
        ELSE IF ~latitude.ok
        THEN Rejected(StatusBadRequest, <<"invalid 'lat' query param: ", "parse error">>)
        ELSE IF ~longitude.ok
        THEN Rejected(StatusBadRequest, <<"invalid 'lon' query param: ", "parse error">>)
        ELSE [valid |-> TRUE, code |-> 0, msg |-> <<>>,
              lat |-> latitude.val, lon |-> longitude.val]

\* forcastGrid: fmt.Sprintf("https://api.weather.gov/points/%f,%f", lat, lon)
PointsURL(lat, lon) ==
    <<"https://api.weather.gov/points/">> \o FormatF(lat) \o <<",">> \o FormatF(lon)

\* ServeHTTP, lines 126-128: derive the deadline-bound context.
ServeHTTPBegin ==
    /\ pc = "start"
    /\ ctx' = [set |-> TRUE, deadline |-> now + Timeout]
    /\ pc' = "validate"
    /\ UNCHANGED <<request, call, now, url, response, forecastEndpoint,
                   writer, outbound, history>>
    /\ UNCHANGED lvars

\* mutant: the handler goes on after a rejected request
ServeHTTPValidate_NoReturn ==
    /\ pc = "validate"
    /\ LET v == validRequest(request)
       IN  /\ writer' = IF v.valid THEN writer ELSE HttpError(writer, v.msg, v.code)
           /\ call' = "forcastGrid"
           /\ url' = PointsURL(v.lat, v.lon)
           /\ pc' = "do"
    /\ UNCHANGED <<request, now, ctx, response, forecastEndpoint, outbound, history>>
    /\ UNCHANGED lvars

\* ServeHTTP, lines 130-135: validate; on success enter forcastGrid with
\* the points URL.
ServeHTTPValidate ==
    /\ pc = "validate"
    /\ LET v == validRequest(request)
       IN  IF ~v.valid
           THEN /\ writer' = HttpError(writer, v.msg, v.code)
                /\ pc' = "done"
                /\ UNCHANGED <<call, url>>
           ELSE /\ call' = "forcastGrid"
                /\ url' = PointsURL(v.lat, v.lon)
                /\ pc' = "do"
                /\ UNCHANGED writer
    /\ UNCHANGED <<request, now, ctx, response, forecastEndpoint, outbound, history>>
    /\ UNCHANGED lvars

\* ------------------------------------------------------------ the upstream
\* A JSON field of a response body: absent, of a type the target field
\* cannot take, a string, or an array.
FAbsent == [kind |-> "absent", val |-> <<>>]
FBadType == [kind |-> "badtype", val |-> <<>>]
FString(str) == [kind |-> "string", val |-> str]
FArray(arr) == [kind |-> "array", val |-> arr]

\* A response body: malformed JSON, or an object with these two fields
\* (any other field is ignored by both targets).
Malformed == [wellFormed |-> FALSE, forecast |-> FAbsent, periods |-> FAbsent]
Object(forecast, periods) ==
    [wellFormed |-> TRUE, forecast |-> forecast, periods |-> periods]

KCWeatherEndpoint == <<"https://api.weather.gov/gridpoints/EAX/44,51/forecast">>
OtherEndpoint == <<"https://api.weather.gov/gridpoints/TOP/31,80/forecast">>

Sunny == <<"S", "u", "n", "n", "y">>
Rain == <<"R", "a", "i", "n">>

Temperatures ==
    {0 - 1398123 * Scale - 3, ColdBelow * Scale - 1, ColdBelow * Scale, 72 * Scale,
     ModerateBelow * Scale - 1, ModerateBelow * Scale, 100 * Scale}

Period(t, f) == [Temperature |-> t, ShortForecast |-> f]

Docs ==
    {Malformed, Object(FAbsent, FAbsent), Object(FString(<<>>), FAbsent),
     Object(FBadType, FAbsent), Object(FAbsent, FBadType),
     Object(FString(KCWeatherEndpoint), FAbsent),
     Object(FString(OtherEndpoint), FArray(<<Period(72 * Scale, Sunny)>>)),
     Object(FAbsent, FArray(<<>>)),
     Object(FAbsent, FArray(<<Period(72 * Scale, Sunny), Period(100 * Scale, Rain)>>)),
     Object(FAbsent, FArray(<<Period(100 * Scale, Rain), Period(72 * Scale, Sunny)>>))}
    \cup {Object(FAbsent, FArray(<<Period(t, Sunny)>>)) : t \in Temperatures}

Statuses == {200, 404, 503}

\* json.Unmarshal into forcastGrid's returnPayload {ForecastEndpoint string}
UnmarshalGrid(doc) ==
    IF ~doc.wellFormed \/ doc.forecast.kind \notin {"absent", "string"}
    THEN [ok |-> FALSE, ForecastEndpoint |-> <<>>]
    ELSE [ok |-> TRUE, ForecastEndpoint |-> doc.forecast.val]

\* json.Unmarshal into forecastGet's returnPayload {Periods []struct{...}}
UnmarshalForecast(doc) ==
    IF ~doc.wellFormed \/ doc.periods.kind \notin {"absent", "array"}
    THEN [ok |-> FALSE, Periods |-> <<>>]
    ELSE [ok |-> TRUE, Periods |-> doc.periods.val]

\* ------------------------------------------------------------- the errors
ErrDeadline == <<"context deadline exceeded">>
ErrScheme == <<"unsupported protocol scheme \"\"">>
ErrTransport == <<"connection refused">>
ErrEOF == <<"unexpected EOF">>
ErrStatus(code) == <<"unexpected status code: ", ToString(code)>>
ErrRead(e) == <<"failed to read body: ">> \o e
ErrUnmarshal == <<"failed to unmarshal body: ", "invalid json">>
ErrNoPeriods == <<"no periods found">>

\* ------------------------------------------------------------- the resolver
\* mutant: the lower boundary taken inclusively
tempratureAnalog_Inclusive(t) ==
    IF t <= ColdBelow * Scale THEN <<"c", "o", "l", "d">>
    ELSE IF t < ModerateBelow * Scale THEN <<"m", "o", "d", "e", "r", "a", "t", "e">>
    ELSE <<"h", "o", "t">>

tempratureAnalog(t) ==
    IF t < ColdBelow * Scale THEN <<"c", "o", "l", "d">>
    ELSE IF t < ModerateBelow * Scale THEN <<"m", "o", "d", "e", "r", "a", "t", "e">>
    ELSE <<"h", "o", "t">>

\* mutant: the last period is taken instead of the indexed one
Index_Last(s, i) ==
    IF i < Len(s) THEN [panic |-> FALSE, val |-> s[Len(s)]]
    ELSE [panic |-> TRUE, val |-> Period(0, <<>>)]

\* s[i] of a Go slice: a run-time panic when i is out of range
Index(s, i) ==
    IF i < Len(s) THEN [panic |-> FALSE, val |-> s[i + 1]]
    ELSE [panic |-> TRUE, val |-> Period(0, <<>>)]

\* mutant: the first period is taken without the length check
forecastGetResult_NoCheck(Periods) ==
    LET first == Index(Periods, 0)
    IN  [panic |-> first.panic, err |-> <<>>,
         forecast |-> first.val.ShortForecast,
         temprature |-> tempratureAnalog(first.val.Temperature)]

\* forecastGet after a successful httpGet, lines 200-208
forecastGetResult(Periods) ==
    IF Len(Periods) = 0
    THEN [panic |-> FALSE, err |-> ErrNoPeriods, forecast |-> <<>>, temprature |-> <<>>]
    ELSE LET first == Index(Periods, 0)
         IN  [panic |-> first.panic, err |-> <<>>,
              forecast |-> first.val.ShortForecast,
              temprature |-> tempratureAnalog(first.val.Temperature)]

\* mutant: a fixed endpoint instead of the one in the payload
forcastGridResult_Fixed(payload) == [err |-> <<>>, forecastEndpoint |-> KCWeatherEndpoint]

\* forcastGrid after a successful httpGet, line 175
forcastGridResult(payload) == [err |-> <<>>, forecastEndpoint |-> payload.ForecastEndpoint]

\* mutant: a fresh timeout for the second step
ForecastCtx_Renewed(c, t) == [c EXCEPT !.deadline = t + Timeout]

\* the context ServeHTTP hands to forecastGet, line 145: the one it derived
ForecastCtx(c, t) == c

\* ------------------------------------------------------------ the pipeline
Event(c, e, st, d) == [call |-> c, event |-> e, status |-> st, doc |-> d]

\* ResponseWriter.Write: an implicit 200 when no status was written yet
Write(w, bytes) ==
    [w EXCEPT !.status = IF w.status = 0 THEN StatusOK ELSE w.status,
              !.statusWrites = IF w.status = 0 THEN w.statusWrites + 1 ELSE w.statusWrites,
              !.body = w.body \o bytes]

ErrPrefix(c) ==
    IF c = "forcastGrid" THEN <<"failed to fetch weather.gov points: ">>
    ELSE <<"failed to fetch weather.gov forecast/temprature: ">>

\* mutant: the upstream error is masked
ServeHTTPFail_Masked(e) ==
    /\ writer' = HttpError(writer, <<"internal server error">>, StatusInternalServerError)
    /\ pc' = "done"

\* ServeHTTP, lines 136-143 and 146-149: the step in progress failed with e
ServeHTTPFail(e) ==
    /\ writer' = HttpError(writer, ErrPrefix(call) \o e, StatusInternalServerError)
    /\ pc' = "done"

\* mutant: the body is never closed
Closed_Leak(r) == r

\* response.Body.Close(), deferred by httpGet
Closed(r) == [r EXCEPT !.open = FALSE]

\* The clock advances while a resolver step is in progress.  The moment the
\* request's budget runs out with a request on the wire is recorded.
Tick ==
    /\ pc \in {"do", "wait", "body", "decode"}
    /\ now < MaxTime
    /\ now' = now + 1
    /\ history' = IF pc \in {"wait", "body"} /\ now' = Timeout
                  THEN Append(history, Event(call, "deadline", 0, Malformed))
                  ELSE history
    /\ UNCHANGED <<request, pc, call, ctx, url, response, forecastEndpoint,
                   writer, outbound>>
    /\ UNCHANGED lvars

\* httpGet, lines 27-36: build the request and hand it to client.Do, which
\* refuses an expired context or a URL without a scheme before anything is
\* sent.
HttpGetDo ==
    /\ pc = "do"
    /\ IF now >= ctx.deadline
       THEN ServeHTTPFail(ErrDeadline) /\ UNCHANGED outbound
       ELSE IF url = <<>>
       THEN ServeHTTPFail(ErrScheme) /\ UNCHANGED outbound
       ELSE /\ outbound' = Append(outbound,
                                  [call |-> call, url |-> url,
                                   deadline |-> ctx.deadline, at |-> now])
            /\ pc' = "wait"
            /\ UNCHANGED writer
    /\ UNCHANGED <<request, call, now, ctx, url, response, forecastEndpoint, history>>
    /\ UNCHANGED lvars

\* mutant: a transport failure is retried
HttpGetResponse_Retry ==
    /\ pc = "wait"
    /\ IF now >= ctx.deadline
       THEN /\ ServeHTTPFail(ErrDeadline)
            /\ UNCHANGED <<response, history>>
       ELSE \/ /\ pc' = "do"
               /\ history' = Append(history, Event(call, "transportError", 0, Malformed))
               /\ UNCHANGED <<response, writer>>
            \/ \E st \in Statuses :
                 /\ history' = Append(history, Event(call, "status", st, Malformed))
                 /\ IF st # StatusOK
                    THEN /\ ServeHTTPFail(ErrStatus(st))
                         /\ response' = Closed([NoResponse EXCEPT !.status = st])
                    ELSE /\ response' = [NoResponse EXCEPT !.open = TRUE, !.status = st]
                         /\ pc' = "body"
                         /\ UNCHANGED writer
    /\ UNCHANGED <<request, call, now, ctx, url, forecastEndpoint, outbound>>
    /\ UNCHANGED lvars

\* httpGet, lines 33-42: client.Do returns.  Past the deadline the request is
\* aborted; otherwise the upstream fails or answers with some status.
HttpGetResponse ==
    /\ pc = "wait"
    /\ IF now >= ctx.deadline
       THEN /\ ServeHTTPFail(ErrDeadline)
            /\ UNCHANGED <<response, history>>
       ELSE \/ /\ ServeHTTPFail(ErrTransport)
               /\ history' = Append(history, Event(call, "transportError", 0, Malformed))
               /\ UNCHANGED response
            \/ \E st \in Statuses :
                 /\ history' = Append(history, Event(call, "status", st, Malformed))
                 /\ IF st # StatusOK
                    THEN /\ ServeHTTPFail(ErrStatus(st))
                         /\ response' = Closed([NoResponse EXCEPT !.status = st])
                    ELSE /\ response' = [NoResponse EXCEPT !.open = TRUE, !.status = st]
                         /\ pc' = "body"
                         /\ UNCHANGED writer
    /\ UNCHANGED <<request, call, now, ctx, url, forecastEndpoint, outbound>>
    /\ UNCHANGED lvars

\* mutant: the read ignores the context and waits on past the deadline
HttpGetReadAll_Hang ==
    /\ pc = "body"
    /\ now < ctx.deadline
    /\ \/ /\ ServeHTTPFail(ErrRead(ErrEOF))
          /\ response' = Closed(response)
          /\ history' = Append(history, Event(call, "readError", 0, Malformed))
       \/ \E doc \in Docs :
            /\ response' = [response EXCEPT !.body = doc, !.consumed = TRUE]
            /\ history' = Append(history, Event(call, "body", 0, doc))
            /\ pc' = "decode"
            /\ UNCHANGED writer
    /\ UNCHANGED <<request, call, now, ctx, url, forecastEndpoint, outbound>>
    /\ UNCHANGED lvars

\* httpGet, lines 44-48: io.ReadAll(response.Body)
HttpGetReadAll ==
    /\ pc = "body"
    /\ IF now >= ctx.deadline
       THEN /\ ServeHTTPFail(ErrRead(ErrDeadline))
            /\ response' = Closed(response)
            /\ UNCHANGED history
       ELSE \/ /\ ServeHTTPFail(ErrRead(ErrEOF))
               /\ response' = Closed(response)
               /\ history' = Append(history, Event(call, "readError", 0, Malformed))
            \/ \E doc \in Docs :
                 /\ response' = [response EXCEPT !.body = doc, !.consumed = TRUE]
                 /\ history' = Append(history, Event(call, "body", 0, doc))
                 /\ pc' = "decode"
                 /\ UNCHANGED writer
    /\ UNCHANGED <<request, call, now, ctx, url, forecastEndpoint, outbound>>
    /\ UNCHANGED lvars

\* httpGet, lines 50-55, forcastGrid, lines 171-175, and ServeHTTP, lines
\* 135-145: decode the points payload and go on to forecastGet.
ForcastGridReturn ==
    /\ pc = "decode"
    /\ call = "forcastGrid"
    /\ LET payload == UnmarshalGrid(response.body)
           result == forcastGridResult(payload)
       IN  IF ~payload.ok
           THEN /\ ServeHTTPFail(ErrUnmarshal)
                /\ UNCHANGED <<call, ctx, url, forecastEndpoint>>
           ELSE IF result.err # <<>>
           THEN /\ ServeHTTPFail(result.err)
                /\ UNCHANGED <<call, ctx, url, forecastEndpoint>>
           ELSE /\ forecastEndpoint' = result.forecastEndpoint
                /\ call' = "forecastGet"
                /\ ctx' = ForecastCtx(ctx, now)
                /\ url' = result.forecastEndpoint
                /\ pc' = "do"
                /\ UNCHANGED writer
    /\ response' = Closed(response)
    /\ UNCHANGED <<request, now, outbound, history>>
    /\ UNCHANGED lvars

\* httpGet, lines 50-55, forecastGet, lines 196-208, and ServeHTTP, lines
\* 145-156: decode the forecast payload and write the response.
ForecastGetReturn ==
    /\ pc = "decode"
    /\ call = "forecastGet"
    /\ LET payload == UnmarshalForecast(response.body)
           result == forecastGetResult(payload.Periods)
           bytes == result.forecast \o <<",", " ">> \o result.temprature \o <<"\n">>
       IN  IF ~payload.ok
           THEN ServeHTTPFail(ErrUnmarshal)
           ELSE IF result.panic
           THEN pc' = "panic" /\ UNCHANGED writer
           ELSE IF result.err # <<>>
           THEN ServeHTTPFail(result.err)
           ELSE /\ writer' = Write([writer EXCEPT !.contentType = "text/plain",
                                                  !.contentLength = Len(bytes)], bytes)
                /\ pc' = "done"
    /\ response' = Closed(response)
    /\ UNCHANGED <<request, call, now, ctx, url, forecastEndpoint, outbound, history>>
    /\ UNCHANGED lvars

Next ==
    \/ ServeHTTPBegin
    \/ ServeHTTPValidate
    \/ Tick
    \/ HttpGetDo
    \/ HttpGetResponse
    \/ HttpGetReadAll
    \/ ForcastGridReturn
    \/ ForecastGetReturn

Spec == Init /\ [][Next]_vars

\* Every upstream call completes or is aborted, and the handler keeps running.
SpecLive == Spec /\ WF_vars(Next)

\* Validation alone, over every lat / lon value up to MaxLen.
InitValid == request \in Requests(QueryValues) /\ Arrived /\ NotStarted

NextValid ==
    \/ ServeHTTPBegin
    \/ ServeHTTPValidate

SpecValid == InitValid /\ [][NextValid]_vars

\* ----------------------------------------------------------- the process
\* signals the process can be sent and catch, and those signals() acts on
Signals == {"SIGINT", "SIGTERM", "SIGQUIT", "SIGHUP", "SIGUSR1"}
Terminating == {"SIGTERM", "SIGINT", "SIGQUIT", "SIGHUP", "SIGKILL"}

\* a panic, or main returning, ends the process
Alive ==
    /\ \A t \in Goroutines : tpc[t] \notin {"panic_serve", "panic_defer"}
    /\ tpc["main"] # "m_done"
At(t, label) == Alive /\ tpc[t] = label
Home(t) == IF t = "main" THEN "m_done" ELSE IF t = "signals" THEN "g_done" ELSE "idle"
Goto(t, label) == tpc' = [tpc EXCEPT ![t] = label]
AddressInUse == \E i \in 1..Len(socks) : socks[i] = "open"

\* main, lines 76-82: spawn signals(), signal.Notify, call startServer
MainGo ==
    /\ At("main", "m_go")
    /\ tpc' = [tpc EXCEPT !["main"] = "s_lock", !["signals"] = "g_recv"]
    /\ UNCHANGED <<listener, mutex, socks, tret, srv, sigchan, calls, racy, pvars>>

\* signal.Notify(sigchan): a signal is queued, or dropped when the buffer of
\* one is full
SignalDeliver ==
    /\ Alive
    /\ tpc["signals"] # "off"
    /\ calls < MaxSignals
    /\ \E sig \in Signals :
         sigchan' = IF Len(sigchan) < 1 THEN Append(sigchan, sig) ELSE sigchan
    /\ calls' = calls + 1
    /\ UNCHANGED <<listener, mutex, socks, tpc, tret, srv, racy, pvars>>

\* signals, lines 12-27: receive; a terminating signal calls stopServer
SignalsRecv ==
    /\ At("signals", "g_recv")
    /\ sigchan # <<>>
    /\ sigchan' = Tail(sigchan)
    /\ IF Head(sigchan) \in Terminating THEN Goto("signals", "p_lock")
       ELSE UNCHANGED tpc
    /\ UNCHANGED <<listener, mutex, socks, tret, srv, calls, racy, pvars>>

\* a free caller calls startServer
CallStart(t) ==
    /\ At(t, "idle")
    /\ calls < MaxCalls
    /\ calls' = calls + 1
    /\ Goto(t, "s_lock")
    /\ tret' = [tret EXCEPT ![t] = "none"]
    /\ UNCHANGED <<listener, mutex, socks, srv, sigchan, racy, pvars>>

\* a free caller calls stopServer
CallStop(t) ==
    /\ At(t, "idle")
    /\ calls < MaxCalls
    /\ calls' = calls + 1
    /\ Goto(t, "p_lock")
    /\ tret' = [tret EXCEPT ![t] = "none"]
    /\ UNCHANGED <<listener, mutex, socks, srv, sigchan, racy, pvars>>

\* startServer, line 95: listnerMutext.Lock()
StartLock(t) ==
    /\ At(t, "s_lock")
    /\ mutex = "free"
    /\ mutex' = t
    /\ Goto(t, "s_check")
    /\ UNCHANGED <<listener, socks, tret, srv, sigchan, calls, racy, pvars>>

\* mutant: the already-started path returns without unlocking
StartCheck_NoUnlock(t) ==
    /\ At(t, "s_check")
    /\ IF listener # 0
       THEN /\ Goto(t, Home(t))
            /\ tret' = [tret EXCEPT ![t] = "server already started"]
       ELSE /\ Goto(t, "s_listen")
            /\ UNCHANGED tret
    /\ UNCHANGED <<mutex, listener, socks, srv, sigchan, calls, racy, pvars>>

\* startServer, lines 97-100: already started?
StartCheck(t) ==
    /\ At(t, "s_check")
    /\ IF listener # 0
       THEN /\ mutex' = "free"
            /\ Goto(t, Home(t))
            /\ tret' = [tret EXCEPT ![t] = "server already started"]
       ELSE /\ Goto(t, "s_listen")
            /\ UNCHANGED <<mutex, tret>>
    /\ UNCHANGED <<listener, socks, srv, sigchan, calls, racy, pvars>>

\* startServer, lines 105-108: net.Listen; it fails when the address is in
\* use, and may fail otherwise.  On failure startServer returns at once.
StartListen(t) ==
    /\ At(t, "s_listen")
    /\ \/ /\ listener' = 0
          /\ Goto(t, Home(t))
          /\ tret' = [tret EXCEPT ![t] = "listen error"]
          /\ UNCHANGED socks
       \/ /\ ~AddressInUse
          /\ socks' = Append(socks, "open")
          /\ listener' = Len(socks) + 1
          /\ Goto(t, "s_unlock")
          /\ UNCHANGED tret
    /\ racy' = (racy \/ mutex # t)
    /\ UNCHANGED <<mutex, srv, sigchan, calls, pvars>>

\* startServer, line 110: listnerMutext.Unlock()
StartUnlock(t) ==
    /\ At(t, "s_unlock")
    /\ mutex' = "free"
    /\ Goto(t, "s_serve")
    /\ UNCHANGED <<listener, socks, tret, srv, sigchan, calls, racy, pvars>>

\* startServer, line 131: httpServer.Serve(listener) reads the global; Serve
\* on a nil listener panics in Accept
StartServe(t) ==
    /\ At(t, "s_serve")
    /\ IF listener = 0
       THEN Goto(t, "panic_serve") /\ UNCHANGED srv
       ELSE Goto(t, "s_serving") /\ srv' = [srv EXCEPT ![t] = listener]
    /\ racy' = (racy \/ mutex # t)
    /\ UNCHANGED <<listener, mutex, socks, tret, sigchan, calls, pvars>>

\* startServer, lines 131-137: Serve returns, with net.ErrClosed (made nil)
\* once its listener is closed, or with another error; it closes its
\* listener on the way out
ServeReturn(t) ==
    /\ At(t, "s_serving")
    /\ \/ /\ socks[srv[t]] = "closed"
          /\ tret' = [tret EXCEPT ![t] = "nil"]
       \/ /\ socks[srv[t]] = "open"
          /\ tret' = [tret EXCEPT ![t] = "serve error"]
    /\ socks' = [socks EXCEPT ![srv[t]] = "closed"]
    /\ Goto(t, "s_defer")
    /\ UNCHANGED <<listener, mutex, srv, sigchan, calls, racy, pvars>>

\* startServer, lines 112-114 and 139: the deferred listener.Close() reads
\* the global; on a nil listener it panics
StartDefer(t) ==
    /\ At(t, "s_defer")
    /\ IF listener = 0
       THEN Goto(t, "panic_defer") /\ UNCHANGED socks
       ELSE Goto(t, Home(t)) /\ socks' = [socks EXCEPT ![listener] = "closed"]
    /\ racy' = (racy \/ mutex # t)
    /\ UNCHANGED <<listener, mutex, tret, srv, sigchan, calls, pvars>>

\* stopServer, line 145: listnerMutext.Lock()
StopLock(t) ==
    /\ At(t, "p_lock")
    /\ mutex = "free"
    /\ mutex' = t
    /\ Goto(t, "p_check")
    /\ UNCHANGED <<listener, socks, tret, srv, sigchan, calls, racy, pvars>>

\* stopServer, lines 146-148: nothing to stop; returns at once
StopCheck(t) ==
    /\ At(t, "p_check")
    /\ IF listener = 0
       THEN /\ Goto(t, Home(t))
            /\ tret' = [tret EXCEPT ![t] = "not started"]
       ELSE /\ Goto(t, "p_close")
            /\ UNCHANGED tret
    /\ racy' = (racy \/ mutex # t)
    /\ UNCHANGED <<listener, mutex, socks, srv, sigchan, calls, pvars>>

\* stopServer, line 149: listener.Close()
StopClose(t) ==
    /\ At(t, "p_close")
    /\ socks' = [socks EXCEPT ![listener] = "closed"]
    /\ Goto(t, "p_nil")
    /\ racy' = (racy \/ mutex # t)
    /\ UNCHANGED <<listener, mutex, tret, srv, sigchan, calls, pvars>>

\* stopServer, line 150: listener = nil
StopNil(t) ==
    /\ At(t, "p_nil")
    /\ listener' = 0
    /\ Goto(t, "p_unlock")
    /\ racy' = (racy \/ mutex # t)
    /\ UNCHANGED <<mutex, socks, tret, srv, sigchan, calls, pvars>>

\* stopServer, lines 151-152: listnerMutext.Unlock() and return
StopUnlock(t) ==
    /\ At(t, "p_unlock")
    /\ mutex' = "free"
    /\ Goto(t, Home(t))
    /\ tret' = [tret EXCEPT ![t] = "stopped"]
    /\ UNCHANGED <<listener, socks, srv, sigchan, calls, racy, pvars>>

\* the request the handler is left with while the process is looked at
NoRequest ==
    [method |-> "GET", path |-> "/weather", accept |-> Absent,
     lat |-> QueryAbsent, lon |-> QueryAbsent]

\* startServer and stopServer called freely by the callers
InitLife ==
    /\ request = NoRequest /\ Arrived
    /\ listener = 0 /\ mutex = "free" /\ socks = <<>>
    /\ tpc = [t \in Goroutines |-> IF t \in Callers THEN "idle" ELSE "off"]
    /\ tret = [t \in Goroutines |-> "none"]
    /\ srv = [t \in Goroutines |-> 0]
    /\ sigchan = <<>> /\ calls = 0 /\ racy = FALSE

NextLife ==
    \E t \in Callers :
        \/ CallStart(t)
        \/ CallStop(t)
        \/ StartLock(t)
        \/ StartCheck(t)
        \/ StartListen(t)
        \/ StartUnlock(t)
        \/ StartServe(t)
        \/ ServeReturn(t)
        \/ StartDefer(t)
        \/ StopLock(t)
        \/ StopCheck(t)
        \/ StopClose(t)
        \/ StopNil(t)
        \/ StopUnlock(t)

SpecLife == InitLife /\ [][NextLife]_vars

\* the program: main starts the server, signals() stops it
InitMain ==
    /\ request = NoRequest /\ Arrived
    /\ listener = 0 /\ mutex = "free" /\ socks = <<>>
    /\ tpc = [t \in Goroutines |-> IF t = "main" THEN "m_go" ELSE "off"]
    /\ tret = [t \in Goroutines |-> "none"]
    /\ srv = [t \in Goroutines |-> 0]
    /\ sigchan = <<>> /\ calls = 0 /\ racy = FALSE

NextMain ==
    \/ MainGo
    \/ SignalDeliver
    \/ SignalsRecv
    \/ StartLock("main")
    \/ StartCheck("main")
    \/ StartListen("main")
    \/ StartUnlock("main")
    \/ StartServe("main")
    \/ ServeReturn("main")
    \/ StartDefer("main")
    \/ StopLock("signals")
    \/ StopCheck("signals")
    \/ StopClose("signals")
    \/ StopNil("signals")
    \/ StopUnlock("signals")

SpecMain == InitMain /\ [][NextMain]_vars

\* ---------------------------------------------------------------- claims
\* what the upstream and the clock did, read off the history
Events(c, e) == {i \in 1..Len(history) : history[i].call = c /\ history[i].event = e}
Happened(c, e) == Events(c, e) # {}
BudgetExpiredInFlight == \E i \in 1..Len(history) : history[i].event = "deadline"
DeadlineBodies(c) ==
    {ErrPrefix(c) \o ErrDeadline \o <<"\n">>, ErrPrefix(c) \o ErrRead(ErrDeadline) \o <<"\n">>}

\* C1: one 2-second deadline, fixed when the request begins, bounds both
\* upstream calls: each is sent under that same deadline and only while
\* budget is left, and when the budget runs out with a call on the wire that
\* call gets nothing more from the upstream, no later call is sent, and the
\* request ends with status 500 and a deadline error, never 200 or a
\* forecast body.
C1_OneDeadline ==
    /\ \A i \in 1..Len(outbound) : outbound[i].deadline = 2 /\ outbound[i].at < 2
    /\ BudgetExpiredInFlight =>
         /\ history[Len(history)].event = "deadline"
         /\ outbound[Len(outbound)].call = history[Len(history)].call
         /\ writer.status \in {0, 500}
         /\ pc \in {"wait", "body", "done"}
         /\ pc = "done" => /\ writer.status = 500
                           /\ writer.body \in DeadlineBodies(history[Len(history)].call)

\* C1 witness: the first call took one second, the second was sent with one
\* second left, ran out of budget on the wire and the request ended with 500.
C1_Witness ==
    /\ pc = "done"
    /\ Len(outbound) = 2
    /\ outbound[2].at = 1
    /\ Happened("forecastGet", "deadline")
    /\ writer.status = 500

\* C2: the forecast request is sent only after the points call has completed
\* with a 200 and a decodable body, its URL is exactly the forecast field of
\* that body, and nothing of the forecast step (endpoint, upstream event,
\* 200 response) exists without that completed points call.
GridResolved ==
    \E i \in Events("forcastGrid", "status"), j \in Events("forcastGrid", "body") :
        /\ i < j
        /\ history[i].status = 200
        /\ history[j].doc.wellFormed
        /\ \A k \in 1..j : history[k].call = "forcastGrid"
GridBody == history[CHOOSE j \in Events("forcastGrid", "body") : TRUE].doc
C2_GridBeforeForecast ==
    /\ (call = "forecastGet" \/ forecastEndpoint # <<>> \/ writer.status = 200
        \/ \E i \in 1..Len(history) : history[i].call = "forecastGet")
         => GridResolved
    /\ \A i \in 1..Len(outbound) :
         outbound[i].call = "forecastGet" =>
            /\ i = 2
            /\ outbound[1].call = "forcastGrid"
            /\ GridResolved
            /\ GridBody.forecast.kind = "string"
            /\ outbound[i].url = GridBody.forecast.val
    /\ Cardinality(Events("forcastGrid", "body")) <= 1

C2_Witness ==
    /\ Len(outbound) = 2
    /\ outbound[2].url = OtherEndpoint
    /\ writer.status = 200

\* C3: forcastGrid never returns an empty endpoint with a nil error: when
\* ServeHTTP has gone on to forecastGet, the endpoint is not empty.
C3_NoEmptyEndpoint == call = "forecastGet" => forecastEndpoint # <<>>

\* a lat / lon value that is a decimal number: an optional sign, then digits
\* with at most one point among them and at least one digit
IsNumber(str) ==
    LET body == IF Len(str) > 0 /\ str[1] = "-" THEN SubSeq(str, 2, Len(str)) ELSE str
    IN  /\ \E i \in 1..Len(body) : body[i] = "4"
        /\ \A i \in 1..Len(body) : body[i] \in {"4", "."}
        /\ Cardinality({i \in 1..Len(body) : body[i] = "."}) <= 1
Missing(v) == v = QueryAbsent \/ v = <<>>
Validated == pc \notin {"start", "validate"}

\* C4: for a GET to /weather the accept check passes exactly when the Accept
\* header is absent, */*, text/* or text/plain; any other value gets 406.
C4_AcceptCheck ==
    (Validated /\ request.method = "GET" /\ request.path = "/weather") =>
        (writer.status = 406 <=>
            request.accept \notin {Absent, "*/*", "text/*", "text/plain"})

\* C5: a request that fails validation (method, path, Accept, lat or lon)
\* causes no outbound call, and none is made before validation has passed.
FailsValidation ==
    \/ request.method # "GET"
    \/ request.path # "/weather"
    \/ request.accept \notin {Absent, "*/*", "text/*", "text/plain"}
    \/ Missing(request.lat) \/ Missing(request.lon)
    \/ ~IsNumber(request.lat) \/ ~IsNumber(request.lon)
C5_NoOutboundUnlessValid ==
    (~Validated \/ FailsValidation \/ writer.status \in {400, 404, 405, 406}) =>
        /\ outbound = <<>>
        /\ history = <<>>
        /\ call = "none"
        /\ pc \in {"start", "validate", "done"}

C5_Witness ==
    /\ pc = "done"
    /\ request.method = "GET" /\ request.path = "/weather" /\ request.accept = "*/*"
    /\ request.lat = <<"4">> /\ request.lon = QueryAbsent
    /\ writer.status = 400
    /\ outbound = <<>>

\* C6: validRequest answers with one status per cause, in the order method
\* (405), path (404), Accept (406), query (400: lat or lon missing, empty or
\* not a number), and only a request passing all four is valid.  An Accept
\* value is unacceptable here when the accept check rejects it; C4 is about
\* which values those are.
C6_Status ==
    IF request.method # "GET" THEN 405
    ELSE IF request.path # "/weather" THEN 404
    ELSE IF request.accept \notin {"*/*", "text/*", "text/plain"} THEN 406
    ELSE IF Missing(request.lat) \/ Missing(request.lon)
            \/ ~IsNumber(request.lat) \/ ~IsNumber(request.lon) THEN 400
    ELSE 0
EmptyPeriods(doc) ==
    doc.wellFormed /\ (doc.periods.kind = "absent"
                       \/ (doc.periods.kind = "array" /\ Len(doc.periods.val) = 0))
GotEmptyPeriods == \E i \in Events("forecastGet", "body") : EmptyPeriods(history[i].doc)
C7_EmptyPeriods ==
    /\ pc # "panic"
    /\ (pc = "done" /\ GotEmptyPeriods) =>
         /\ writer.status = 500
         /\ writer.body = <<"failed to fetch weather.gov forecast/temprature: ",
                            "no periods found", "\n">>

C7_Witness ==
    /\ pc = "done"
    /\ \E i \in Events("forecastGet", "body") :
         history[i].doc.periods.kind = "array" /\ Len(history[i].doc.periods.val) = 0
    /\ writer.status = 500

\* C8: any failure of either upstream step (transport failure, deadline,
\* non-200 status, body-read failure, undecodable body, absent or empty
\* forecast field, no periods) ends the request with status 500 and a body
\* carrying the error the handler got; a request with such a failure never
\* ends with 200.
Undecodable(ev) ==
    \/ ~ev.doc.wellFormed
    \/ ev.call = "forcastGrid" /\ ev.doc.forecast.kind = "badtype"
    \/ ev.call = "forecastGet" /\ ev.doc.periods.kind = "badtype"
NoEndpoint(ev) ==
    /\ ev.call = "forcastGrid" /\ ev.doc.wellFormed
    /\ \/ ev.doc.forecast.kind = "absent"
       \/ ev.doc.forecast.kind = "string" /\ Len(ev.doc.forecast.val) = 0
FaultEvent(ev) ==
    \/ ev.event \in {"transportError", "deadline", "readError"}
    \/ ev.event = "status" /\ ev.status # 200
    \/ ev.event = "body" /\ (Undecodable(ev) \/ NoEndpoint(ev)
                             \/ (ev.call = "forecastGet" /\ EmptyPeriods(ev.doc)))
Faults == {i \in 1..Len(history) : FaultEvent(history[i])}
FirstFault == history[CHOOSE i \in Faults : \A j \in Faults : i <= j]
\* the error the handler reports for a fault; an endpoint that is missing
\* shows as forecastGet's failure to fetch the empty URL
ErrorsOf(ev) ==
    IF ev.event = "transportError" THEN {ErrPrefix(ev.call) \o ErrTransport}
    ELSE IF ev.event = "deadline"
    THEN {ErrPrefix(ev.call) \o ErrDeadline, ErrPrefix(ev.call) \o ErrRead(ErrDeadline)}
    ELSE IF ev.event = "readError" THEN {ErrPrefix(ev.call) \o ErrRead(ErrEOF)}
    ELSE IF ev.event = "status" THEN {ErrPrefix(ev.call) \o ErrStatus(ev.status)}
    ELSE IF Undecodable(ev) THEN {ErrPrefix(ev.call) \o ErrUnmarshal}
    ELSE IF NoEndpoint(ev)
    THEN {ErrPrefix("forecastGet") \o ErrScheme, ErrPrefix("forecastGet") \o ErrDeadline}
    ELSE {ErrPrefix(ev.call) \o ErrNoPeriods}
C8_FailureIs500 ==
    /\ writer.status = 200 =>
         /\ Faults = {}
         /\ Happened("forcastGrid", "body") /\ Happened("forecastGet", "body")
    /\ (pc = "done" /\ call # "none") => writer.status \in {200, 500}
    /\ (pc = "done" /\ Faults # {}) =>
         /\ writer.status = 500
         /\ \E m \in ErrorsOf(FirstFault) : writer.body = m \o <<"\n">>

C8_Witness ==
    /\ pc = "done"
    /\ \E i \in Events("forecastGet", "status") : history[i].status = 503
    /\ writer.status = 500
    /\ writer.body = <<"failed to fetch weather.gov forecast/temprature: ",
                       "unexpected status code: ", "503", "\n">>

\* C9: nothing is retried: at most one request is sent per step (two in
\* all), a failure is the last thing that happens on the wire for its
\* request, and nothing is sent once a response status is written.
C9_NoRetry ==
    /\ Len(outbound) <= 2
    /\ \A i, j \in 1..Len(outbound) : outbound[i].call = outbound[j].call => i = j
    /\ \A i \in 1..Len(history) :
         /\ \E k \in 1..Len(outbound) : outbound[k].call = history[i].call
         /\ FaultEvent(history[i]) =>
              /\ i = Len(history)
              /\ outbound[Len(outbound)].call = history[i].call
              /\ pc \in {"wait", "body", "decode", "do", "done"}
              /\ pc = "do" => url = <<>>
    /\ writer.status # 0 => pc = "done"

C9_Witness ==
    /\ pc = "done"
    /\ Happened("forcastGrid", "transportError")
    /\ Len(outbound) = 1
    /\ writer.status = 500

\* C10: tempratureAnalog gives exactly one category: cold below 40, moderate
\* from 40 up to but not including 80, hot from 80; so 40 and 72 are
\* moderate, 80 and 100 hot and a large negative value cold.  Seen in the
\* 200 response for the first period's temperature.
Categories ==
    {<<"c", "o", "l", "d">>, <<"m", "o", "d", "e", "r", "a", "t", "e">>, <<"h", "o", "t">>}
CategoryOf(t) ==
    CHOOSE c \in Categories :
        /\ c = <<"c", "o", "l", "d">> <=> t < 40 * Scale
        /\ c = <<"m", "o", "d", "e", "r", "a", "t", "e">> <=> (40 * Scale <= t /\ t < 80 * Scale)
        /\ c = <<"h", "o", "t">> <=> t >= 80 * Scale
FirstPeriod ==
    history[CHOOSE i \in Events("forecastGet", "body") : TRUE].doc.periods.val[1]
C10_Category ==
    writer.status = 200 =>
        LET t == FirstPeriod.Temperature
        IN  /\ writer.body = FirstPeriod.ShortForecast \o <<",", " ">> \o CategoryOf(t) \o <<"\n">>
            /\ t = 40 * Scale => CategoryOf(t) = <<"m", "o", "d", "e", "r", "a", "t", "e">>
            /\ t = 72 * Scale => CategoryOf(t) = <<"m", "o", "d", "e", "r", "a", "t", "e">>
            /\ t = 80 * Scale => CategoryOf(t) = <<"h", "o", "t">>
            /\ t = 100 * Scale => CategoryOf(t) = <<"h", "o", "t">>
            /\ t < 0 => CategoryOf(t) = <<"c", "o", "l", "d">>

C10_Witness ==
    /\ writer.status = 200
    /\ FirstPeriod.Temperature = 40 * Scale
    /\ writer.body = <<"S", "u", "n", "n", "y", ",", " ",
                       "m", "o", "d", "e", "r", "a", "t", "e", "\n">>

\* C11: when both steps succeed the response is 200 with the body
\* "<shortForecast of the first period>, <its category>\n", whatever the
\* later periods are, and a Content-Length equal to the number of bytes of
\* that body; 72 and "Sunny" give "Sunny, moderate\n".
BothSucceeded ==
    /\ Faults = {}
    /\ Happened("forcastGrid", "body") /\ Happened("forecastGet", "body")
C11_Body ==
    /\ (pc = "done" /\ BothSucceeded) => writer.status = 200
    /\ writer.status = 200 =>
         /\ BothSucceeded
         /\ writer.statusWrites = 1
         /\ writer.body = FirstPeriod.ShortForecast \o <<",", " ">>
                          \o CategoryOf(FirstPeriod.Temperature) \o <<"\n">>
         /\ writer.contentLength = Len(writer.body)
         /\ writer.contentType = "text/plain"
         /\ (FirstPeriod.Temperature = 72 * Scale /\ FirstPeriod.ShortForecast = Sunny) =>
              /\ writer.body = <<"S", "u", "n", "n", "y", ",", " ",
                                 "m", "o", "d", "e", "r", "a", "t", "e", "\n">>
              /\ writer.contentLength = 16

C11_Witness ==
    /\ pc = "done"
    /\ \E i \in Events("forecastGet", "body") : Len(history[i].doc.periods.val) = 2
    /\ FirstPeriod.Temperature = 72 * Scale
    /\ writer.status = 200
    /\ writer.contentLength = 16

\* the goroutine's call has returned
Returned(t) == tpc[t] = Home(t)

\* C12: every startServer / stopServer call that locked the mutex has
\* unlocked it when it returns, and the listener variable is touched only
\* with the mutex held.
C12_MutexDiscipline ==
    /\ \A t \in Goroutines : Returned(t) => mutex # t
    /\ ~racy

\* C13: stopServer with no server started returns with the mutex not held
\* and the listener still nil.
C13_StopNoop ==
    \A t \in Goroutines :
        (Returned(t) /\ tret[t] = "not started") => (mutex # t /\ listener = 0)

\* C14: startServer finding a server already started returns "server already
\* started" without binding, keeps the listener and leaves the mutex free.
C14_AlreadyStarted ==
    [][\A t \in Goroutines :
          (tpc[t] = "s_check" /\ tpc'[t] # "s_check" /\ listener # 0) =>
              /\ tret'[t] = "server already started"
              /\ Returned(t)'
              /\ listener' = listener
              /\ socks' = socks
              /\ mutex' = "free"]_vars

C14_Witness ==
    \E t \in Goroutines :
        /\ Returned(t) /\ tret[t] = "server already started"
        /\ listener # 0 /\ socks[listener] = "open"
        /\ mutex = "free"

\* C15: once a terminating signal has been handled, main is on its way to
\* returning: it has not panicked and is not left waiting for a mutex that
\* the finished signals goroutine still holds.
C15_StopsOnSignal ==
    tpc["signals"] = "g_done" =>
        /\ tpc["main"] \notin {"panic_serve", "panic_defer"}
        /\ ~(tpc["main"] = "s_lock" /\ mutex = "signals")

\* C16 as claimed: whenever httpGet has got a response and has returned,
\* the body was fully consumed and closed.
HttpGetExited == response.status # 0 /\ pc \notin {"body", "decode"}
C16_ConsumedAndReleased ==
    HttpGetExited => (~response.open /\ response.consumed)

\* C16 amended: whenever httpGet has got a response and has returned, the
\* body is closed; it was consumed only if the status was 200 and the read
\* succeeded; and httpGet succeeds only on a 200 whose body decodes into the
\* target.
Decoded(c) ==
    /\ \E i \in Events(c, "status") : history[i].status = 200
    /\ \E i \in Events(c, "body") : ~Undecodable(history[i])
C16_Released ==
    /\ HttpGetExited => ~response.open
    /\ response.consumed =>
         (response.status = 200 /\ \E i \in 1..Len(history) : history[i].event = "body")
    /\ (response.status # 0 /\ response.status # 200) => ~response.consumed
    /\ (history # <<>> /\ history[Len(history)].event = "readError") => ~response.consumed
    /\ call = "forecastGet" => Decoded("forcastGrid")
    /\ (writer.status = 200 \/ (pc = "done" /\ GotEmptyPeriods)) => Decoded("forecastGet")

C16_Witness ==
    /\ pc = "done"
    /\ response.status = 404
    /\ ~response.open /\ ~response.consumed

\* C17: when startServer was stopped by stopServer (Serve ended with
\* net.ErrClosed, the error made nil), its deferred listener.Close() never
\* finds the listener nil.
C17_DeferNonNil ==
    \A t \in Goroutines : ~(tpc[t] = "panic_defer" /\ tret[t] = "nil")

\* C18: startServer returning a bind error leaves the mutex released and the
\* listener nil.
C18_ListenFails ==
    \A t \in Goroutines :
        (Returned(t) /\ tret[t] = "listen error") => (mutex # t /\ listener = 0)

\* C19: with no startServer call between its bind and its return (and no
\* stopServer about to clear it), the listener is nil.
C19_ListenerTracksServer ==
    (\A t \in Goroutines :
        tpc[t] \notin {"s_unlock", "s_serve", "s_serving", "s_defer", "p_close", "p_nil"})
        => listener = 0

\* C20: every request ends, with exactly one status out of 200, 400, 404,
\* 405, 406 and 500 written once, and nothing is written after it.
C20_Terminates ==
    /\ <>(pc = "done")
    /\ [](pc = "done" => /\ writer.status \in {200, 400, 404, 405, 406, 500}
                         /\ writer.statusWrites = 1)
    /\ [][writer.status # 0 => writer' = writer]_vars

C20_Witness ==
    /\ pc = "done"
    /\ now = MaxTime
    /\ writer.status = 500
    /\ writer.statusWrites = 1

====
